---- MODULE Spec2Model ----
(***************************************************************************)
(* Model of wmfocus src/utils.rs: the hint-code generator get_next_hint    *)
(* and the rectangle predicate contains, together with the box placement   *)
(* (place) that the design document describes.                             *)
(*                                                                         *)
(* A hint code and the alphabet hint_chars are sequences of characters; a  *)
(* character is a one-character string.  Rust's str::len() counts UTF-8    *)
(* bytes while str::chars() yields characters, so both are modelled.       *)
(***************************************************************************)
EXTENDS Integers, Sequences, FiniteSets, TLC

\* ---------------------------------------------------------------- bounds
\* Longest alphabet, largest max_count, number of calls in one batch, and
\* longest code that is in current_hints before the first call.
MaxAlphabet == 3
MaxCount == 4
MaxCalls == 10
MaxPreLen == 1
\* size_required is a u32; the counter is modelled with this many bits.  Every
\* size loop that ends does so below 2^SizeRequiredBits for the inputs above,
\* and one that does not end repeats the same test until the counter
\* overflows, whatever its width.  hint_chars.len().pow(size_required) stays
\* far below usize::MAX for these inputs.
SizeRequiredBits == 3
\* contains is called with coordinates 0..MaxSmallCoord and u32::MAX; place
\* with dimensions 1..MaxBoxDim and margins k / MarginDenominator.
MaxSmallCoord == 2
MaxBoxDim == 3
MarginDenominator == 10

\* ------------------------------------------------------------ characters
CharSet == {"a", "s", "d", "é"}

Utf8Len(c) == IF c = "é" THEN 2 ELSE 1

RECURSIVE StrLen(_)
StrLen(s) == IF s = <<>> THEN 0 ELSE Utf8Len(Head(s)) + StrLen(Tail(s))

RECURSIVE Pow(_, _)
Pow(b, e) == IF e = 0 THEN 1 ELSE b * Pow(b, e - 1)

SizeModulus == Pow(2, SizeRequiredBits)

SeqsUpTo(S, n) == UNION {[1..k -> S] : k \in 0..n}

Alphabets == SeqsUpTo(CharSet, MaxAlphabet)

PreHints == {<<>>} \cup {<<s>> : s \in (SeqsUpTo(CharSet, MaxPreLen) \ {<<>>})}


\* ------------------------------------------------------- u32 arithmetic
\* A u32 is the pair <<high 16 bits, low 16 bits>>, so that sums beyond
\* 2^32 - 1 are computed exactly.
U32Half == Pow(2, 16)

U32(n) == <<n \div U32Half, n % U32Half>>

U32Max == <<U32Half - 1, U32Half - 1>>

\* The exact sum a + b as <<carry, high, low>>.
WideAdd(a, b) ==
    LET lo == a[2] + b[2]
        hi == a[1] + b[1] + (lo \div U32Half)
    IN  <<hi \div U32Half, hi % U32Half, lo % U32Half>>

AddOverflows(a, b) == WideAdd(a, b)[1] # 0

WrappingAdd(a, b) == <<WideAdd(a, b)[2], WideAdd(a, b)[3]>>

U32Le(a, b) == a[1] < b[1] \/ (a[1] = b[1] /\ a[2] <= b[2])

U32Ge(a, b) == U32Le(b, a)

WideLe(s, t) ==
    \/ s[1] < t[1]
    \/ s[1] = t[1] /\ U32Le(<<s[2], s[3]>>, <<t[2], t[3]>>)

\* ------------------------------------------------------------- contains
\* The outcome of contains(container, rect): "true", "false", or "panic"
\* when an addition overflows in a build with overflow checks.  Without
\* overflow checks the sums wrap.  && evaluates left to right and stops at
\* the first false operand.
SumsLe(checks, a, b, c, d) ==
    IF checks /\ (AddOverflows(a, b) \/ AddOverflows(c, d))
    THEN "panic"
    ELSE IF U32Le(WrappingAdd(a, b), WrappingAdd(c, d)) THEN "true" ELSE "false"

contains(checks, container, rect) ==
    IF ~U32Ge(rect[1], container[1]) THEN "false"
    ELSE IF ~U32Ge(rect[2], container[1]) THEN "false"
    ELSE IF SumsLe(checks, rect[1], rect[3], container[1], container[3]) # "true"
         THEN SumsLe(checks, rect[1], rect[3], container[1], container[3])
    ELSE SumsLe(checks, rect[2], rect[4], container[2], container[4])

\* ---------------------------------------------------------------- place
\* place(container, box, h_align, v_align, margin) of the design document,
\* with margin = tenths / MarginDenominator.  Coordinates of the result are
\* exact rationals, returned in units of 1 / PlaceScale.
PlaceScale == 2 * MarginDenominator

PlaceAxis(origin, extent, boxExtent, align, tenths) ==
    CASE align \in {"Left", "Top"} ->
            PlaceScale * origin + 2 * tenths * extent
      [] align \in {"Right", "Bottom"} ->
            PlaceScale * (origin + extent - boxExtent) - 2 * tenths * extent
      [] align = "Center" ->
            PlaceScale * origin + MarginDenominator * (extent - boxExtent)

place(container, box, h_align, v_align, tenths) ==
    <<PlaceAxis(container[1], container[3], box[1], h_align, tenths),
      PlaceAxis(container[2], container[4], box[2], v_align, tenths),
      PlaceScale * box[1],
      PlaceScale * box[2]>>

Scaled(r) == [i \in 1..4 |-> U32(PlaceScale * r[i])]

HorizontalAlign == {"Left", "Center", "Right"}
VerticalAlign == {"Top", "Center", "Bottom"}

\* ---------------------------------------------------------------- inputs
CoordSet == {U32(n) : n \in 0..MaxSmallCoord} \cup {U32Max}

RectSet == CoordSet \X CoordSet \X CoordSet \X CoordSet

\* Containers and boxes for place: origins are at least MaxBoxDim so that no
\* placed coordinate is negative.
PlaceOrigins == MaxBoxDim..(MaxBoxDim + 1)
PlaceDims == 1..MaxBoxDim
MarginTenths == 0..(MarginDenominator \div 2)

\* ----------------------------------------------------------------- state
\* overflow_checks  whether the build panics on integer overflow (debug
\*                  profile) or wraps (release profile)
\* hint_chars, max_count, current_hints   the arguments of get_next_hint;
\*                  current_hints is owned by the caller and grows by Feed
\* initial_hints    current_hints as it was before the first call
\* returned         the codes returned so far, in order
\* pc               "idle", "size_loop", "scan", "returned" or "panicked"
\* size_required, ret   the locals of get_next_hint
\* scanned          number of items of the product consumed by the for loop
\* panic_msg        message of the panic that ended the call, if any
\* g_op             "none", "contains" or "place": the geometry call made
\* g_container, g_rect, g_result   arguments and outcome of contains
\* g_box, g_margin, g_align        arguments of place (margin in
\*                  MarginDenominator-ths)
VARIABLES overflow_checks, hint_chars, max_count, current_hints, initial_hints,
          returned, pc, size_required, ret, scanned, panic_msg,
          g_op, g_container, g_rect, g_result, g_box, g_margin, g_align

hintVars == <<hint_chars, max_count, current_hints, initial_hints,
              returned, pc, size_required, ret, scanned, panic_msg>>
geomVars == <<g_op, g_container, g_rect, g_result, g_box, g_margin, g_align>>
vars == <<overflow_checks, hintVars, geomVars>>

\* ------------------------------------------------- get_next_hint helpers
Contains(hints, s) == \E i \in 1..Len(hints) : hints[i] = s

\* hint_chars.chars() without .rev()
CharsForward(chars) == chars

CharsRev(chars) == [i \in 1..Len(chars) |-> chars[Len(chars) + 1 - i]]

ProductSize(chars, size) == Pow(Len(chars), size)

Combination(chars, size, i) ==
    [p \in 1..size |->
        CharsRev(chars)[((i \div Pow(Len(chars), size - p)) % Len(chars)) + 1]]

\* the last character instead of the first as the initial value of ret
InitialRetLast(chars) == <<chars[Len(chars)]>>

InitialRet(chars) == <<Head(chars)>>

\* the membership test without its negation
FoldRetNegated(hints, old, folded) == IF Contains(hints, folded) THEN folded ELSE old

FoldRet(hints, old, folded) == IF ~Contains(hints, folded) THEN folded ELSE old

LoopCondition(chars, size, count) == Pow(StrLen(chars), size) < count

\* ------------------------------------------------------------------ init
HintIdle ==
    /\ returned = <<>>
    /\ pc = "idle"
    /\ size_required = 1
    /\ ret = <<>>
    /\ scanned = 0
    /\ panic_msg = ""

GeomIdle ==
    /\ g_op = "none"
    /\ g_container = <<U32(0), U32(0), U32(0), U32(0)>>
    /\ g_rect = <<U32(0), U32(0), U32(0), U32(0)>>
    /\ g_result = "none"
    /\ g_box = <<0, 0>>
    /\ g_margin = 0
    /\ g_align = <<"Left", "Top">>

InitHint ==
    /\ overflow_checks \in BOOLEAN
    /\ hint_chars \in Alphabets
    /\ max_count \in 1..MaxCount
    /\ initial_hints \in PreHints
    /\ current_hints = initial_hints
    /\ HintIdle
    /\ GeomIdle

\* --------------------------------------------------------------- actions
Call ==
    /\ pc = "idle"
    /\ Len(returned) < MaxCalls
    /\ pc' = "size_loop"
    /\ size_required' = 1
    /\ ret' = <<>>
    /\ scanned' = 0
    /\ UNCHANGED <<overflow_checks, hint_chars, max_count, current_hints,
                   initial_hints, returned, panic_msg, geomVars>>

SizeLoopStep ==
    /\ pc = "size_loop"
    /\ LoopCondition(hint_chars, size_required, max_count)
    /\ IF size_required + 1 < SizeModulus
       THEN /\ size_required' = size_required + 1
            /\ UNCHANGED <<pc, panic_msg>>
       ELSE IF overflow_checks
            THEN /\ pc' = "panicked"
                 /\ panic_msg' = "attempt to add with overflow"
                 /\ UNCHANGED size_required
            ELSE /\ size_required' = 0
                 /\ UNCHANGED <<pc, panic_msg>>
    /\ UNCHANGED <<overflow_checks, hint_chars, max_count, current_hints,
                   initial_hints, returned, ret, scanned, geomVars>>

SizeLoopExit ==
    /\ pc = "size_loop"
    /\ ~LoopCondition(hint_chars, size_required, max_count)
    /\ IF hint_chars = <<>>
       THEN /\ pc' = "panicked"
            /\ panic_msg' = "No hint_chars found"
            /\ UNCHANGED ret
       ELSE /\ pc' = "scan"
            /\ ret' = InitialRet(hint_chars)
            /\ UNCHANGED panic_msg
    /\ scanned' = 0
    /\ UNCHANGED <<overflow_checks, hint_chars, max_count, current_hints,
                   initial_hints, returned, size_required, geomVars>>

ScanStep ==
    /\ pc = "scan"
    /\ scanned < ProductSize(hint_chars, size_required)
    /\ ret' = FoldRet(current_hints, ret,
                      Combination(hint_chars, size_required, scanned))
    /\ scanned' = scanned + 1
    /\ UNCHANGED <<overflow_checks, hint_chars, max_count, current_hints,
                   initial_hints, returned, pc, size_required, panic_msg,
                   geomVars>>

ScanDone ==
    /\ pc = "scan"
    /\ scanned = ProductSize(hint_chars, size_required)
    /\ pc' = "returned"
    /\ UNCHANGED <<overflow_checks, hint_chars, max_count, current_hints,
                   initial_hints, returned, size_required, ret, scanned,
                   panic_msg, geomVars>>

Feed ==
    /\ pc = "returned"
    /\ current_hints' = Append(current_hints, ret)
    /\ returned' = Append(returned, ret)
    /\ pc' = "idle"
    /\ UNCHANGED <<overflow_checks, hint_chars, max_count, initial_hints,
                   size_required, ret, scanned, panic_msg, geomVars>>

NextHint == Call \/ SizeLoopStep \/ SizeLoopExit \/ ScanStep \/ ScanDone \/ Feed

SpecHint == InitHint /\ [][NextHint]_vars

FairSpecHint == SpecHint /\ WF_vars(SizeLoopStep) /\ WF_vars(SizeLoopExit)
                         /\ WF_vars(ScanStep) /\ WF_vars(ScanDone)

\* ------------------------------------------------------ geometry actions
InitGeom ==
    /\ overflow_checks \in BOOLEAN
    /\ hint_chars = <<>>
    /\ max_count = 1
    /\ initial_hints = <<>>
    /\ current_hints = <<>>
    /\ HintIdle
    /\ GeomIdle

CheckContains ==
    /\ g_op = "none"
    /\ \E container \in RectSet, rect \in RectSet :
          /\ g_container' = container
          /\ g_rect' = rect
          /\ g_result' = contains(overflow_checks, container, rect)
    /\ g_op' = "contains"
    /\ UNCHANGED <<overflow_checks, hintVars, g_box, g_margin, g_align>>

PlaceAndCheck ==
    /\ g_op = "none"
    /\ \E x \in PlaceOrigins, y \in PlaceOrigins, w \in PlaceDims, h \in PlaceDims,
          bw \in PlaceDims, bh \in PlaceDims, m \in MarginTenths,
          ha \in HorizontalAlign, va \in VerticalAlign :
          LET container == <<x, y, w, h>>
              placed == place(container, <<bw, bh>>, ha, va, m)
          IN  /\ g_container' = Scaled(container)
              /\ g_rect' = [i \in 1..4 |-> U32(placed[i])]
              /\ g_box' = <<bw, bh>>
              /\ g_margin' = m
              /\ g_align' = <<ha, va>>
              /\ g_result' = contains(overflow_checks, g_container', g_rect')
    /\ g_op' = "place"
    /\ UNCHANGED <<overflow_checks, hintVars>>

NextGeom == CheckContains \/ PlaceAndCheck

SpecGeom == InitGeom /\ [][NextGeom]_vars

\* ============================================================== properties
\* Reference notions used by the properties below; none of them is used by
\* the model of the code above.
AlphabetSize == Len(hint_chars)

DistinctChars == \A i, j \in 1..Len(hint_chars) : i # j => hint_chars[i] # hint_chars[j]

IsMinimalLength(L, A, N) ==
    /\ L >= 1
    /\ Pow(A, L) >= N
    /\ \A k \in 1..(L - 1) : Pow(A, k) < N

HasMinimalLength(A, N) == \E L \in 1..MaxCount : IsMinimalLength(L, A, N)

MinimalLength(A, N) == CHOOSE L \in 1..MaxCount : IsMinimalLength(L, A, N)

\* Index tuples of the L-fold product; t is enumerated before u when, at the
\* first position where they differ, t takes the later alphabet character.
IndexTuples(L) == [1..L -> 1..Len(hint_chars)]

StringOf(t) == [p \in DOMAIN t |-> hint_chars[t[p]]]

EnumeratedBefore(t, u) ==
    \E p \in DOMAIN t : /\ \A q \in 1..(p - 1) : t[q] = u[q]
                        /\ t[p] > u[p]

Unused(s) == \A i \in 1..Len(current_hints) : current_hints[i] # s

SomeUnused(L) == \E t \in IndexTuples(L) : Unused(StringOf(t))

\* The k-th string of length L in the lexicographic order of hint_chars.
KthLex(k, L) ==
    [p \in 1..L |->
        hint_chars[(((k - 1) \div Pow(Len(hint_chars), L - p)) % Len(hint_chars)) + 1]]

PairwiseDistinct(q) == \A i, j \in 1..Len(q) : i # j => q[i] # q[j]

\* rect lies inside container, with sums taken over unbounded integers.
Encloses(container, rect) ==
    /\ U32Ge(rect[1], container[1])
    /\ U32Ge(rect[2], container[2])
    /\ WideLe(WideAdd(rect[1], rect[3]), WideAdd(container[1], container[3]))
    /\ WideLe(WideAdd(rect[2], rect[4]), WideAdd(container[2], container[4]))

\* C1: in a batch started from an empty used set, with every returned code
\* fed back before the next call, the first N <= A^L returned codes are
\* pairwise distinct and each has length L, L being the minimal length for
\* max_count and A the number of alphabet characters (repeated ones counted).
C1_BatchUnique ==
    (/\ initial_hints = <<>>
     /\ hint_chars # <<>>
     /\ HasMinimalLength(AlphabetSize, max_count)
     /\ Len(returned) <= Pow(AlphabetSize, MinimalLength(AlphabetSize, max_count)))
    => /\ PairwiseDistinct(returned)
       /\ \A k \in 1..Len(returned) :
             Len(returned[k]) = MinimalLength(AlphabetSize, max_count)

\* C2: contains returns true exactly when rect starts at or after the
\* container's origin on both axes and ends at or before its far edges.
C2_ContainsIff ==
    g_op = "contains" => (g_result = "true" <=> Encloses(g_container, g_rect))

\* C3: a call with an empty alphabet never reaches the scan, never returns a
\* code, never fails with another error, and does end with the error
\* "No hint_chars found".
C3_EmptyAlphabetError ==
    /\ [](hint_chars = <<>> =>
            /\ pc \notin {"scan", "returned"}
            /\ (pc = "panicked" => panic_msg = "No hint_chars found"))
    /\ ((hint_chars = <<>> /\ pc = "size_loop")
            ~> (pc = "panicked" /\ panic_msg = "No hint_chars found"))

\* C4: the length used to enumerate candidates is the smallest positive L
\* with A^L >= max_count, A being the number of alphabet characters.
C4_MinimalLength ==
    pc \in {"scan", "returned"} =>
        IsMinimalLength(size_required, AlphabetSize, max_count)

\* C5: when some combination of the enumerated length is unused, the call
\* returns the unused combination that comes last in the enumeration of the
\* product of the reversed alphabet, after scanning the whole enumeration.
C5_LastUnused ==
    (pc = "returned" /\ SomeUnused(size_required)) =>
        /\ scanned = Pow(AlphabetSize, size_required)
        /\ \E t \in IndexTuples(size_required) :
              /\ ret = StringOf(t)
              /\ Unused(ret)
              /\ \A u \in IndexTuples(size_required) :
                    (Unused(StringOf(u)) /\ u # t) => EnumeratedBefore(u, t)

C5_Witness ==
    /\ pc = "returned"
    /\ size_required = 2
    /\ current_hints # <<>>
    /\ \E t, u \in IndexTuples(size_required) :
          /\ ret = StringOf(t)
          /\ Unused(StringOf(u))
          /\ StringOf(u) # ret
          /\ EnumeratedBefore(u, t)
    /\ \E v \in IndexTuples(size_required) : ~Unused(StringOf(v))

\* C6: every call with a non-empty alphabet finishes its length loop and its
\* scan and returns.
C6_Terminates ==
    (pc = "size_loop" /\ hint_chars # <<>>) ~> (pc = "returned")

\* C7: a box no larger than the container, placed with a margin below one
\* half, is reported as contained for every pair of alignments.
C7_PlacedContained ==
    (/\ g_op = "place"
     /\ 2 * g_margin < MarginDenominator
     /\ U32Le(U32(PlaceScale * g_box[1]), g_container[3])
     /\ U32Le(U32(PlaceScale * g_box[2]), g_container[4]))
    => g_result = "true"

\* C8: contains always returns a boolean, and that boolean is the enclosure
\* test evaluated without overflow.
C8_ContainsTotal ==
    g_op = "contains" =>
        /\ g_result \in {"true", "false"}
        /\ (g_result = "true") = Encloses(g_container, g_rect)

\* C9: when every combination of the enumerated length is used, the call
\* returns, without error, the one-character string of the first alphabet
\* character; for length 1 that string is already used.
C9_ExhaustionFallback ==
    (pc = "returned" /\ ~SomeUnused(size_required)) =>
        /\ ret = <<hint_chars[1]>>
        /\ Len(ret) = 1
        /\ panic_msg = ""
        /\ (size_required = 1 => ~Unused(ret))

C9_Witness ==
    /\ pc = "returned"
    /\ size_required = 2
    /\ ~SomeUnused(size_required)
    /\ Len(ret) = 1

\* C10: for an alphabet of distinct characters and a batch started from an
\* empty used set, the k-th returned code (k <= A^L) is the k-th string of
\* length L in the lexicographic order of the alphabet, L being the length
\* the calls enumerate.
C10_LexOrder ==
    (/\ initial_hints = <<>>
     /\ DistinctChars
     /\ hint_chars # <<>>
     /\ HasMinimalLength(StrLen(hint_chars), max_count))
    => \A k \in 1..Len(returned) :
          LET L == MinimalLength(StrLen(hint_chars), max_count)
          IN  k <= Pow(AlphabetSize, L) => returned[k] = KthLex(k, L)

C10_Witness ==
    /\ initial_hints = <<>>
    /\ DistinctChars
    /\ Len(hint_chars) = 3
    /\ Len(returned) = 9
    /\ Len(returned[1]) = 2
    /\ returned[1] = <<hint_chars[1], hint_chars[1]>>
    /\ returned[9] = <<hint_chars[3], hint_chars[3]>>
====
